---- MODULE Spec2Model ----
(***************************************************************************)
(* FadeChat relay server: the room lifecycle of src/server.ts and of its   *)
(* compiled form with the idle sweep (src/services/cryptoService.ts,       *)
(* lines 25-201).  One action per inbound event; an action is the whole    *)
(* handler, the synchronous 'disconnect' handlers that                     *)
(* io.in(roomId).disconnectSockets(false) runs inside destroyRoom          *)
(* included.                                                               *)
(***************************************************************************)
EXTENDS Integers, Sequences, FiniteSets, TLC

\* ------------------------------------------------------------------ bounds
NumSockets == 2
MaxRooms == 2
MaxCount == 2
MaxSlack == 1
RandomDenom == 1000
MaxSent == 2

\* ------------------------------------------------------- program constants
CLEANUP_INTERVAL == 60 * 1000
INACTIVITY_TIMEOUT == 60 * 60 * 1000
CodeLength == 6

Sockets == 1..NumSockets
RoomIds == 1..MaxRooms
NamePool == <<"alice", "bob">>
Names == { NamePool[i] : i \in 1..Len(NamePool) }
Contents == {"c1"}
NoUser == "<none>"
NoTouch == 0 - 1

\* ------------------------------------------------------------------ state
VARIABLES
    conn,        \* socket id -> "idle" | "connected" | "closed"
    users,       \* users: socket id -> username, NoUser when absent
    rooms,       \* rooms: roomId -> Room
    roomCodes,   \* roomCodes: code -> roomId
    members,     \* socket.io adapter rooms: roomId -> sockets in join order
    nextId,      \* the next fresh room id (crypto.randomUUID never repeats)
    now,         \* Date.now()
    out,         \* what the event being handled emitted, in order
    lastEv,      \* the inbound event being handled, type "none" between events
    notices,     \* history: room_destroyed notices received, per room and socket
    deadCodes,   \* history: codes of destroyed rooms not handed out again since
    destroyed,   \* the destroyRoom calls of the event being handled that found
                 \* their room: roomId, reason, creatorId, the members at the call
    touchedAt,   \* history: when join_room, send_message or a non-creator's
                 \* leave_room last wrote the room's lastActive, NoTouch if never
    handlers     \* the 'disconnect' handlers started while the event is handled:
                 \* socket, and the rooms whose destroyRoom had begun and not
                 \* yet returned

\* One call of generateRoomCode on its own: the values Math.random() returned
\* (as numerators over RandomDenom) and the code built from them.
VARIABLES gen

\* The in-browser mock backend (src/services/socketService.ts, MockServer):
\* its rooms Map and its activeConnections Map in insertion order, the room
\* ids handed out, the call made last with the events it delivered, and who
\* created or joined which room.
VARIABLES mock

\* The WebSocket connections between the clients and the server, each a
\* first-in first-out byte stream: the packets a client has emitted and the
\* server has not yet handled, the packets the server has emitted to a client
\* and the client has not yet received, what each client has received, and
\* how many events each client has emitted.
VARIABLES chan

serverVars == <<conn, users, rooms, roomCodes, members, nextId, now, out, lastEv,
                notices, deadCodes, destroyed, touchedAt, handlers>>

aux == <<gen, mock, chan>>

vars == <<serverVars, aux>>

\* ------------------------------------------------------------ join codes
chars == <<"A","B","C","D","E","F","G","H","J","K","L","M","N","P","Q","R",
           "S","T","U","V","W","X","Y","Z","2","3","4","5","6","7","8","9">>

\* A generateRoomCode whose loop stops one character early.
generateRoomCode_short(rand) == [i \in 1..(CodeLength - 1) |-> chars[rand[i] + 1]]

\* The draws floor(Math.random() * chars.length) of one call, bounded to a pool.
RandPool == { <<9, 29, 21, 31, 13, 24>>, <<0, 1, 2, 3, 4, 5>> }

generateRoomCode(rand) == [i \in 1..CodeLength |-> chars[rand[i] + 1]]

lower == <<"a","b","c","d","e","f","g","h","j","k","l","m","n","p","q","r",
           "s","t","u","v","w","x","y","z">>

\* toUpperCase maps a lower-case letter to its capital and leaves every other
\* character as it is; the letters of chars are at the same index as in lower.
UpperTable == [c \in { lower[i] : i \in 1..Len(lower) } |->
                 chars[CHOOSE i \in 1..Len(lower) : lower[i] = c]]

LowerTable == [c \in { chars[i] : i \in 1..Len(lower) } |->
                 lower[CHOOSE i \in 1..Len(lower) : chars[i] = c]]

UpperChar(c) == IF c \in DOMAIN UpperTable THEN UpperTable[c] ELSE c

LowerChar(c) == IF c \in DOMAIN LowerTable THEN LowerTable[c] ELSE c

\* A toUpperCase that leaves the string as it is.
toUpperCase_identity(code) == code

toUpperCase(code) == [i \in 1..Len(code) |-> UpperChar(code[i])]
toLowerCase(code) == [i \in 1..Len(code) |-> LowerChar(code[i])]

\* What a client may type into join_room: the codes, and their lower-case forms.
TypedCodes ==
    LET pool == { generateRoomCode(r) : r \in RandPool }
    IN  pool \cup { toLowerCase(c) : c \in pool }

\* The Room records: { id (the key), code, creatorId, participantCount, lastActive }
RoomRecords ==
    [code : { generateRoomCode(r) : r \in RandPool }, creatorId : Sockets,
     participantCount : 1..MaxCount, lastActive : Nat]

TypeOK ==
    /\ conn \in [Sockets -> {"idle", "connected", "closed"}]
    /\ users \in [Sockets -> Names \cup {NoUser}]
    /\ DOMAIN rooms \subseteq RoomIds
    /\ \A r \in DOMAIN rooms : rooms[r] \in RoomRecords
    /\ DOMAIN roomCodes \subseteq { generateRoomCode(r) : r \in RandPool }
    /\ \A k \in DOMAIN roomCodes : roomCodes[k] \in RoomIds
    /\ \A r \in RoomIds : \A i \in 1..Len(members[r]) : members[r][i] \in Sockets
    /\ nextId \in 1..(MaxRooms + 1)
    /\ now \in Nat
    /\ \A i \in 1..Len(destroyed) : destroyed[i].roomId \in RoomIds

\* ------------------------------------------------------------- utilities
Remove(seq, x) == SelectSeq(seq, LAMBDA y : y # x)
Without(f, k) == [x \in (DOMAIN f) \ {k} |-> f[x]]
With(f, k, v) == [x \in (DOMAIN f) \cup {k} |-> IF x = k THEN v ELSE f[x]]
InSeq(seq, x) == \E i \in 1..Len(seq) : seq[i] = x
Range(seq) == { seq[i] : i \in 1..Len(seq) }

\* The shared state one handler works on.
St == [users |-> users, rooms |-> rooms, roomCodes |-> roomCodes,
       members |-> members, conn |-> conn, out |-> <<>>, notices |-> notices,
       dead |-> deadCodes, log |-> <<>>, busy |-> {}, ran |-> <<>>,
       touched |-> touchedAt]

Msg(to, ev, roomId, arg) == [to |-> to, ev |-> ev, roomId |-> roomId, arg |-> arg]

\* callback(response): the acknowledgement to the calling socket
Ack(st, s, roomId, arg) ==
    [st EXCEPT !.out = Append(@, Msg(s, "ack", roomId, arg))]

RECURSIVE EmitTo(_, _, _, _, _)
\* emit(ev, ...) to the sockets of `to`, in order
EmitTo(st, to, ev, roomId, arg) ==
    IF to = <<>> THEN st
    ELSE LET s == Head(to)
             st1 == [st EXCEPT
                       !.out = Append(@, Msg(s, ev, roomId, arg)),
                       !.notices[roomId][s] =
                           IF ev = "room_destroyed" THEN @ + 1 ELSE @]
         IN  EmitTo(st1, Tail(to), ev, roomId, arg)

\* io.to(roomId).emit(ev, arg): every socket now in the adapter room
IoEmit(st, roomId, ev, arg) == EmitTo(st, st.members[roomId], ev, roomId, arg)

\* socket.to(roomId).emit(ev, arg): the room but the socket itself
SocketEmit(st, s, roomId, ev, arg) ==
    EmitTo(st, Remove(st.members[roomId], s), ev, roomId, arg)

\* room.lastActive = Date.now() in join_room, send_message and the leave of a
\* socket that is not the creator; touched is the history of these writes
Touch(st, roomId) ==
    [st EXCEPT !.rooms[roomId].lastActive = now, !.touched[roomId] = now]

\* socket.join(roomId): a Set, so a second join changes nothing
SocketJoin(st, s, roomId) ==
    IF InSeq(st.members[roomId], s) THEN st
    ELSE [st EXCEPT !.members[roomId] = Append(@, s)]

\* socket.leave(roomId)
SocketLeave(st, s, roomId) == [st EXCEPT !.members[roomId] = Remove(@, s)]

\* The next key of rooms.forEach after `last`: Map iteration is live, a room
\* deleted before it is visited is skipped; ids are handed out in increasing
\* order, so insertion order is id order.
NextRoom(st, last) ==
    LET later == { r \in DOMAIN st.rooms : r > last }
    IN  IF later = {} THEN 0
        ELSE CHOOSE r \in later : \A q \in later : r <= q

RECURSIVE destroyRoom(_, _, _)
RECURSIVE DisconnectSockets(_, _)
RECURSIVE SocketDisconnect(_, _)
RECURSIVE DisconnectForEach(_, _, _)

\* socket.on('disconnect'): the callback of rooms.forEach, for room r
DisconnectVisit(st, s, r) ==
    IF st.rooms[r].creatorId = s
    THEN destroyRoom(st, r, "Creator disconnected")
    ELSE IoEmit([st EXCEPT !.rooms[r].lastActive = now], r, "user_left", s)

\* A forEach that stops after the first room it visits.
DisconnectForEach_firstOnly(st, s, last) ==
    LET r == NextRoom(st, last)
    IN  IF r = 0 \/ last # 0 THEN st
        ELSE DisconnectVisit(st, s, r)

\* the rooms.forEach of the 'disconnect' handler, from the room after `last`
DisconnectForEach(st, s, last) ==
    LET r == NextRoom(st, last)
    IN  IF r = 0 THEN st
        ELSE DisconnectForEach(DisconnectVisit(st, s, r), s, r)

\* A 'disconnect' handler that deletes the users entry and skips the rooms.
OnDisconnect_forgetsRooms(st, s) ==
    LET st0 == [st EXCEPT !.ran = Append(@, [socket |-> s, during |-> st.busy])]
    IN  [st0 EXCEPT !.users[s] = NoUser]

\* socket.on('disconnect', ...); ran is the history of the handler's starts,
\* each with the rooms whose destroyRoom is on the call stack
OnDisconnect(st, s) ==
    LET st0 == [st EXCEPT !.ran = Append(@, [socket |-> s, during |-> st.busy])]
    IN  IF st.users[s] = NoUser THEN st0
        ELSE [DisconnectForEach(st0, s, 0) EXCEPT !.users[s] = NoUser]

\* A close that leaves the rooms and runs no 'disconnect' listener.
SocketDisconnect_noHandler(st, s) ==
    IF st.conn[s] # "connected" THEN st
    ELSE [st EXCEPT !.members = [r \in RoomIds |-> Remove(st.members[r], s)],
                    !.conn[s] = "closed"]

\* socket.io Socket.disconnect / _onclose: the socket leaves every room, is
\* marked closed, and its 'disconnect' listeners run, all synchronously.
SocketDisconnect(st, s) ==
    IF st.conn[s] # "connected" THEN st
    ELSE OnDisconnect(
           [st EXCEPT !.members = [r \in RoomIds |-> Remove(st.members[r], s)],
                      !.conn[s] = "closed"], s)

\* io.in(roomId).disconnectSockets(false): the adapter walks the room's Set,
\* which shrinks as each socket closes.
DisconnectSockets(st, roomId) ==
    IF st.members[roomId] = <<>> THEN st
    ELSE DisconnectSockets(SocketDisconnect(st, Head(st.members[roomId])), roomId)

\* A destroyRoom that disconnects the room's sockets before it notifies them.
destroyRoom_disconnectsFirst(st, roomId, reason) ==
    IF roomId \notin DOMAIN st.rooms THEN st
    ELSE LET room == st.rooms[roomId]
             st0 == [st EXCEPT !.log = Append(@, [roomId |-> roomId,
                                reason |-> reason, creatorId |-> room.creatorId,
                                members |-> st.members[roomId]]),
                              !.busy = @ \cup {roomId}]
             st1 == DisconnectSockets(st0, roomId)
             st2 == IoEmit(st1, roomId, "room_destroyed", reason)
         IN  [st2 EXCEPT !.roomCodes = Without(@, room.code),
                         !.rooms = Without(@, roomId),
                         !.dead = @ \cup {room.code},
                         !.busy = st.busy,
                         !.touched[roomId] = NoTouch]

\* A destroyRoom that notifies and disconnects but forgets the cleanup.
destroyRoom_noCleanup(st, roomId, reason) ==
    IF roomId \notin DOMAIN st.rooms THEN st
    ELSE LET room == st.rooms[roomId]
             st0 == [st EXCEPT !.log = Append(@, [roomId |-> roomId,
                                reason |-> reason, creatorId |-> room.creatorId,
                                members |-> st.members[roomId]]),
                              !.busy = @ \cup {roomId}]
             st1 == IoEmit(st0, roomId, "room_destroyed", reason)
             st2 == DisconnectSockets(st1, roomId)
         IN  [st2 EXCEPT !.dead = @ \cup {room.code}, !.busy = st.busy]

\* function destroyRoom(roomId, reason); dead is the history of destroyed codes,
\* log the history of the calls that found their room, busy the rooms whose
\* destroyRoom has begun and not returned
destroyRoom(st, roomId, reason) ==
    IF roomId \notin DOMAIN st.rooms THEN st
    ELSE LET room == st.rooms[roomId]
             st0 == [st EXCEPT !.log = Append(@, [roomId |-> roomId,
                                reason |-> reason, creatorId |-> room.creatorId,
                                members |-> st.members[roomId]]),
                              !.busy = @ \cup {roomId}]
             st1 == IoEmit(st0, roomId, "room_destroyed", reason)
             st2 == DisconnectSockets(st1, roomId)
         IN  [st2 EXCEPT !.roomCodes = Without(@, room.code),
                         !.rooms = Without(@, roomId),
                         !.dead = @ \cup {room.code},
                         !.busy = st.busy,
                         !.touched[roomId] = NoTouch]

\* A handleUserLeavingRoom whose non-creator branch leaves without notifying.
handleUserLeavingRoom_noEmit(st, s, roomId) ==
    IF roomId \notin DOMAIN st.rooms THEN st
    ELSE IF st.rooms[roomId].creatorId = s
         THEN destroyRoom(st, roomId, "Creator left the room")
         ELSE SocketLeave(Touch(st, roomId), s, roomId)

\* A handleUserLeavingRoom without the creator branch: the creator just leaves.
handleUserLeavingRoom_noCreatorCheck(st, s, roomId) ==
    IF roomId \notin DOMAIN st.rooms THEN st
    ELSE SocketEmit(
           SocketLeave(Touch(st, roomId), s, roomId),
           s, roomId, "user_left", s)

\* function handleUserLeavingRoom(socket, roomId)
handleUserLeavingRoom(st, s, roomId) ==
    IF roomId \notin DOMAIN st.rooms THEN st
    ELSE IF st.rooms[roomId].creatorId = s
         THEN destroyRoom(st, roomId, "Creator left the room")
         ELSE SocketEmit(
                SocketLeave(Touch(st, roomId), s, roomId),
                s, roomId, "user_left", s)

RECURSIVE SweepForEach(_, _, _)
\* A sweep that destroys every room it visits, idle or not.
SweepForEach_all(st, t, last) ==
    LET r == NextRoom(st, last)
    IN  IF r = 0 THEN st
        ELSE SweepForEach(destroyRoom(st, r, "Room expired due to inactivity"),
                          t, r)

\* the setInterval callback's rooms.forEach; t is its `now`
SweepForEach(st, t, last) ==
    LET r == NextRoom(st, last)
    IN  IF r = 0 THEN st
        ELSE SweepForEach(
               IF t - st.rooms[r].lastActive > INACTIVITY_TIMEOUT
               THEN destroyRoom(st, r, "Room expired due to inactivity")
               ELSE st,
               t, r)

\* ---------------------------------------------------------------- actions
\* The variables a handler's result st sets, and the histories.
Quiet == lastEv.type = "none"

Commit(st, ev) ==
    /\ users' = st.users
    /\ rooms' = st.rooms
    /\ roomCodes' = st.roomCodes
    /\ members' = st.members
    /\ conn' = st.conn
    /\ out' = st.out
    /\ notices' = st.notices
    /\ deadCodes' = st.dead
    /\ destroyed' = st.log
    /\ handlers' = st.ran
    /\ touchedAt' = st.touched
    /\ UNCHANGED aux
    /\ lastEv' = ev
    /\ now' = now

\* An inbound event: its kind, its socket (0 for the timer), its argument, and
\* socket.rooms, the rooms the socket is in when the event arrives.
Ev(type, s, arg) ==
    [type |-> type, socket |-> s, arg |-> arg,
     rooms |-> { r \in RoomIds : s \in Sockets /\ InSeq(members[r], s) }]

ServerInit ==
    /\ conn = [s \in Sockets |-> "idle"]
    /\ users = [s \in Sockets |-> NoUser]
    /\ rooms = <<>>
    /\ roomCodes = <<>>
    /\ members = [r \in RoomIds |-> <<>>]
    /\ nextId = 1
    /\ now = 0
    /\ out = <<>>
    /\ lastEv = Ev("none", 0, 0)
    /\ notices = [r \in RoomIds |-> [s \in Sockets |-> 0]]
    /\ deadCodes = {}
    /\ destroyed = <<>>
    /\ handlers = <<>>
    /\ touchedAt = [r \in RoomIds |-> NoTouch]

NoGen == [random |-> <<>>, code |-> <<>>]

\* No call of the mock backend made yet.
NoCall == [op |-> "none", user |-> NoUser, roomId |-> <<>>, threw |-> FALSE,
           out |-> <<>>, owned |-> {}]

\* const rooms = new Map(); const activeConnections = new Map()
MockInit == [rooms |-> <<>>, activeConnections |-> <<>>, nextUuid |-> 1,
             last |-> NoCall, joined |-> {}]

\* Nothing in flight.
NoChan == [up |-> [s \in Sockets |-> <<>>], down |-> [s \in Sockets |-> <<>>],
           got |-> [s \in Sockets |-> <<>>], sent |-> [s \in Sockets |-> 0]]

Init ==
    /\ ServerInit
    /\ gen = NoGen
    /\ mock = MockInit
    /\ chan = NoChan

\* io.on('connection', ...)
Connect(s) ==
    /\ Quiet
    /\ conn[s] = "idle"
    /\ Commit([St EXCEPT !.conn[s] = "connected"], Ev("connect", s, 0))
    /\ UNCHANGED nextId

\* socket.on('login', ...)
LoginHandler(st, s, username) ==
    Ack([st EXCEPT !.users[s] = username], s, 0, "success")

\* Usernames are opaque to the server, so a login takes a name some session
\* holds or the first name of the pool that none holds.
LoginNames ==
    LET held == { users[q] : q \in Sockets } \ {NoUser}
        free == { i \in 1..Len(NamePool) : NamePool[i] \notin held }
    IN  held \cup { NamePool[i] : i \in { j \in free : \A k \in free : j <= k } }

Login(s, username) ==
    /\ Quiet
    /\ conn[s] = "connected"
    /\ username \in LoginNames
    /\ Commit(LoginHandler(St, s, username), Ev("login", s, username))
    /\ UNCHANGED nextId

\* A create_room that takes the lowest id no room holds instead of a fresh one.
CreateRoomHandler_reusesId(st, s, roomId, code) ==
    IF st.users[s] = NoUser THEN Ack(st, s, 0, "Not authenticated")
    ELSE LET free == RoomIds \ DOMAIN st.rooms
             id == CHOOSE r \in free : \A q \in free : r <= q
             newRoom == [code |-> code, creatorId |-> s,
                         participantCount |-> 1, lastActive |-> now]
             st1 == [st EXCEPT !.rooms = With(@, id, newRoom),
                               !.roomCodes = With(@, code, id),
                               !.dead = @ \ {code}]
         IN  Ack(SocketJoin(st1, s, id), s, id, "success")

\* A create_room that registers the room and leaves out socket.join.
CreateRoomHandler_noJoin(st, s, roomId, code) ==
    IF st.users[s] = NoUser THEN Ack(st, s, 0, "Not authenticated")
    ELSE LET newRoom == [code |-> code, creatorId |-> s,
                         participantCount |-> 1, lastActive |-> now]
             st1 == [st EXCEPT !.rooms = With(@, roomId, newRoom),
                               !.roomCodes = With(@, code, roomId),
                               !.dead = @ \ {code}]
         IN  Ack(st1, s, roomId, "success")

\* socket.on('create_room', ...)
CreateRoomHandler(st, s, roomId, code) ==
    IF st.users[s] = NoUser THEN Ack(st, s, 0, "Not authenticated")
    ELSE LET newRoom == [code |-> code, creatorId |-> s,
                         participantCount |-> 1, lastActive |-> now]
             st1 == [st EXCEPT !.rooms = With(@, roomId, newRoom),
                               !.roomCodes = With(@, code, roomId),
                               !.dead = @ \ {code}]
         IN  Ack(SocketJoin(st1, s, roomId), s, roomId, "success")

CreateRoom(s, rand) ==
    /\ Quiet
    /\ conn[s] = "connected"
    /\ users[s] # NoUser => nextId <= MaxRooms
    /\ LET code == generateRoomCode(rand)
       IN  /\ Commit(CreateRoomHandler(St, s, nextId, code), Ev("create_room", s, code))
           /\ nextId' = IF users[s] = NoUser THEN nextId ELSE nextId + 1

\* A join_room that hands the room over to the joiner.
JoinRoomHandler_takesOver(st, s, code) ==
    IF st.users[s] = NoUser THEN Ack(st, s, 0, "Not authenticated")
    ELSE LET up == toUpperCase(code)
             roomId == IF up \in DOMAIN st.roomCodes THEN st.roomCodes[up] ELSE 0
         IN  IF roomId \notin DOMAIN st.rooms
             THEN Ack(st, s, 0, "Room not found")
             ELSE LET st1 == SocketJoin(st, s, roomId)
                      st2 == Touch([st1 EXCEPT
                                !.rooms[roomId].participantCount = @ + 1,
                                !.rooms[roomId].creatorId = s], roomId)
                      st3 == SocketEmit(st2, s, roomId, "user_joined", st.users[s])
                  IN  Ack(st3, s, roomId, "success")

\* A join_room that notifies with io.to, the joiner included.
JoinRoomHandler_echo(st, s, code) ==
    IF st.users[s] = NoUser THEN Ack(st, s, 0, "Not authenticated")
    ELSE LET up == toUpperCase(code)
             roomId == IF up \in DOMAIN st.roomCodes THEN st.roomCodes[up] ELSE 0
         IN  IF roomId \notin DOMAIN st.rooms
             THEN Ack(st, s, 0, "Room not found")
             ELSE LET st1 == SocketJoin(st, s, roomId)
                      st2 == Touch([st1 EXCEPT
                                !.rooms[roomId].participantCount = @ + 1], roomId)
                      st3 == IoEmit(st2, roomId, "user_joined", st.users[s])
                  IN  Ack(st3, s, roomId, "success")

\* A join_room that returns without calling back when the room is not found.
JoinRoomHandler_silentMiss(st, s, code) ==
    IF st.users[s] = NoUser THEN Ack(st, s, 0, "Not authenticated")
    ELSE LET up == toUpperCase(code)
             roomId == IF up \in DOMAIN st.roomCodes THEN st.roomCodes[up] ELSE 0
         IN  IF roomId \notin DOMAIN st.rooms
             THEN st
             ELSE LET st1 == SocketJoin(st, s, roomId)
                      st2 == Touch([st1 EXCEPT
                                !.rooms[roomId].participantCount = @ + 1], roomId)
                      st3 == SocketEmit(st2, s, roomId, "user_joined", st.users[s])
                  IN  Ack(st3, s, roomId, "success")

\* A join_room that does not look the caller up in users.
JoinRoomHandler_noAuth(st, s, code) ==
    LET up == toUpperCase(code)
        roomId == IF up \in DOMAIN st.roomCodes THEN st.roomCodes[up] ELSE 0
    IN  IF roomId \notin DOMAIN st.rooms
        THEN Ack(st, s, 0, "Room not found")
        ELSE LET st1 == SocketJoin(st, s, roomId)
                 st2 == Touch([st1 EXCEPT
                           !.rooms[roomId].participantCount = @ + 1], roomId)
                 st3 == SocketEmit(st2, s, roomId, "user_joined", st.users[s])
             IN  Ack(st3, s, roomId, "success")

\* socket.on('join_room', ...)
JoinRoomHandler(st, s, code) ==
    IF st.users[s] = NoUser THEN Ack(st, s, 0, "Not authenticated")
    ELSE LET up == toUpperCase(code)
             roomId == IF up \in DOMAIN st.roomCodes THEN st.roomCodes[up] ELSE 0
         IN  IF roomId \notin DOMAIN st.rooms
             THEN Ack(st, s, 0, "Room not found")
             ELSE LET st1 == SocketJoin(st, s, roomId)
                      st2 == Touch([st1 EXCEPT
                                !.rooms[roomId].participantCount = @ + 1], roomId)
                      st3 == SocketEmit(st2, s, roomId, "user_joined", st.users[s])
                  IN  Ack(st3, s, roomId, "success")

JoinRoom(s, code) ==
    /\ Quiet
    /\ conn[s] = "connected"
    /\ LET up == toUpperCase(code)
       IN  (/\ users[s] # NoUser
            /\ up \in DOMAIN roomCodes
            /\ roomCodes[up] \in DOMAIN rooms)
           => rooms[roomCodes[up]].participantCount < MaxCount
    /\ Commit(JoinRoomHandler(St, s, code), Ev("join_room", s, code))
    /\ UNCHANGED nextId

\* A send_message that relays to the room but the sender.
SendMessageHandler_skipsSender(st, s, payload) ==
    IF payload.roomId \notin DOMAIN st.rooms THEN st
    ELSE SocketEmit(Touch(st, payload.roomId),
                    s, payload.roomId, "new_message", payload)

\* socket.on('send_message', ...)
SendMessageHandler(st, s, payload) ==
    IF payload.roomId \notin DOMAIN st.rooms THEN st
    ELSE IoEmit(Touch(st, payload.roomId),
                payload.roomId, "new_message", payload)

SendMessage(s, payload) ==
    /\ Quiet
    /\ conn[s] = "connected"
    /\ Commit(SendMessageHandler(St, s, payload), Ev("send_message", s, payload))
    /\ UNCHANGED nextId

\* socket.on('leave_room', ...)
LeaveRoom(s, roomId) ==
    /\ Quiet
    /\ conn[s] = "connected"
    /\ Commit(handleUserLeavingRoom(St, s, roomId), Ev("leave_room", s, roomId))
    /\ UNCHANGED nextId

\* The transport of socket s closes (the client went away); the event carries
\* socket.rooms, the rooms the socket is in when it closes.
Disconnect(s) ==
    /\ Quiet
    /\ conn[s] = "connected"
    /\ Commit(SocketDisconnect(St, s),
              Ev("disconnect", s, { r \in RoomIds : InSeq(members[r], s) }))
    /\ UNCHANGED nextId

\* setInterval(() => {...}, CLEANUP_INTERVAL)
Sweep ==
    /\ Quiet
    /\ Commit(SweepForEach(St, now, 0), Ev("sweep", 0, now))
    /\ UNCHANGED nextId

\* Time passes between events: millisecond by millisecond for MaxSlack steps,
\* then by the whole timeout, so that at the end rooms idle for more than,
\* exactly and less than INACTIVITY_TIMEOUT exist side by side.
Delays == {1, INACTIVITY_TIMEOUT}

Advance(d) ==
    /\ d = 1 => now < MaxSlack
    /\ d = INACTIVITY_TIMEOUT => now = MaxSlack
    /\ Quiet
    /\ now' = now + d
    /\ UNCHANGED <<conn, users, rooms, roomCodes, members, nextId, out, lastEv,
                   notices, deadCodes, destroyed, touchedAt, handlers, aux>>

\* The handler has returned and the transport has written out what it emitted:
\* the event loop is free for the next event.
Flush ==
    /\ ~Quiet
    /\ out' = <<>>
    /\ lastEv' = Ev("none", 0, 0)
    /\ destroyed' = <<>>
    /\ handlers' = <<>>
    /\ UNCHANGED <<conn, users, rooms, roomCodes, members, nextId, now,
                   notices, deadCodes, touchedAt, aux>>

Payloads == [roomId : RoomIds, senderId : Sockets, content : Contents]

Next ==
    \/ \E s \in Sockets : Connect(s)
    \/ \E s \in Sockets, n \in Names : Login(s, n)
    \/ \E s \in Sockets, rand \in RandPool : CreateRoom(s, rand)
    \/ \E s \in Sockets, code \in TypedCodes : JoinRoom(s, code)
    \/ \E s \in Sockets, p \in Payloads : SendMessage(s, p)
    \/ \E s \in Sockets, r \in RoomIds : LeaveRoom(s, r)
    \/ \E s \in Sockets : Disconnect(s)
    \/ Sweep
    \/ \E d \in Delays : Advance(d)
    \/ Flush

Spec == Init /\ [][Next]_vars

\* ------------------------------------------------- generateRoomCode alone
\* Math.random() returns a double in [0, 1): here n / RandomDenom for a
\* numerator n of RandomDraws, which holds both ends of the range.
RandomDraws == {0, 1, RandomDenom \div 2, RandomDenom - 1}

\* Math.floor(Math.random() * chars.length) for Math.random() = n / RandomDenom
FloorIndex(n) == (n * Len(chars)) \div RandomDenom

CodeInit ==
    /\ ServerInit
    /\ \E u \in [1..CodeLength -> RandomDraws] : gen = [random |-> u, code |-> <<>>]
    /\ mock = MockInit
    /\ chan = NoChan

\* const code = generateRoomCode()
Generate ==
    /\ gen.code = <<>>
    /\ gen' = [gen EXCEPT !.code =
                  generateRoomCode([i \in 1..CodeLength |-> FloorIndex(gen.random[i])])]
    /\ UNCHANGED <<serverVars, mock, chan>>

CodeNext == Generate

CodeSpec == CodeInit /\ [][CodeNext]_vars

\* ------------------------------------------------------- the mock backend
\* User ids are login's username.toLowerCase().replace(/\s/g, '_').
MockUsers == Names

\* crypto.randomUUID(): the n-th id handed out, a string no code equals
MockUuid(n) == <<"u", "u", "i", "d", "-">> \o (IF n = 1 THEN <<"1">> ELSE <<"2">>)

\* A Map is the sequence of its entries in insertion order.
MapHas(map, k) == \E i \in 1..Len(map) : map[i].key = k
MapGet(map, k) == map[CHOOSE i \in 1..Len(map) : map[i].key = k].val
MapSet(map, k, v) ==
    IF MapHas(map, k)
    THEN [i \in 1..Len(map) |-> IF map[i].key = k THEN [key |-> k, val |-> v] ELSE map[i]]
    ELSE Append(map, [key |-> k, val |-> v])
MapDelete(map, k) == SelectSeq(map, LAMBDA e : e.key # k)

\* activeConnections.set(userId, onMessage)
ConnSet(ac, u) == IF InSeq(ac, u) THEN ac ELSE Append(ac, u)

\* The rooms the user created, as the room map holds them.
OwnedBy(m, u) ==
    { m.rooms[i].val : i \in { j \in 1..Len(m.rooms) : m.rooms[j].val.creatorId = u } }

\* Entry of one call of the mock backend.
MockCall(m, op, u, roomId) ==
    [m EXCEPT !.last = [op |-> op, user |-> u, roomId |-> roomId, threw |-> FALSE,
                        out |-> <<>>, owned |-> OwnedBy(m, u)]]

\* broadcastToRoom: activeConnections.forEach(callback => callback(event))
broadcastToRoom(m, roomId, type) ==
    [m EXCEPT !.last.out = @ \o
        [i \in 1..Len(m.activeConnections) |->
            [to |-> m.activeConnections[i], type |-> type, roomId |-> roomId]]]

\* rooms.forEach(room => { if (room.creatorId === userId) roomsToDelete.push(room.id) })
RoomsToDelete(m, userId) ==
    LET hits == SelectSeq(m.rooms, LAMBDA e : e.val.creatorId = userId)
    IN  [i \in 1..Len(hits) |-> hits[i].val.id]

\* roomsToDelete.forEach(roomId => { broadcastToRoom(...); wipe })
RECURSIVE DeleteEach(_, _)
DeleteEach(m, ids) ==
    IF ids = <<>> THEN m
    ELSE LET roomId == Head(ids)
             m1 == broadcastToRoom(m, roomId, "ROOM_DESTROYED")
             m2 == IF MapHas(m1.rooms, roomId)
                   THEN [m1 EXCEPT !.rooms =
                            MapDelete(MapDelete(@, MapGet(m1.rooms, roomId).code), roomId)]
                   ELSE m1
         IN  DeleteEach(m2, Tail(ids))

handleUserDisconnect(m, userId) == DeleteEach(m, RoomsToDelete(m, userId))

\* handleUserLeavingRoom(roomId, userId) of the mock backend
MockHandleUserLeavingRoom(m, roomId, userId) ==
    IF ~MapHas(m.rooms, roomId) THEN m
    ELSE IF MapGet(m.rooms, roomId).creatorId = userId
         THEN handleUserDisconnect(m, userId)
         ELSE broadcastToRoom(m, roomId, "USER_LEFT")

\* MockServer.connect(userId, onMessage)
MockConnect(u) ==
    /\ mock' = [MockCall(mock, "connect", u, <<>>) EXCEPT
                    !.activeConnections = ConnSet(@, u)]
    /\ UNCHANGED <<serverVars, gen, chan>>

\* The clean-up function MockServer.connect returned
MockDisconnect(u) ==
    /\ InSeq(mock.activeConnections, u)
    /\ mock' = handleUserDisconnect(
                   [MockCall(mock, "disconnect", u, <<>>) EXCEPT
                       !.activeConnections = Remove(@, u)], u)
    /\ UNCHANGED <<serverVars, gen, chan>>

\* MockServer.createRoom(creator)
MockCreateRoom(u, rand) ==
    /\ mock.nextUuid <= MaxRooms
    /\ LET roomId == MockUuid(mock.nextUuid)
           code == generateRoomCode(rand)
           newRoom == [id |-> roomId, code |-> code, creatorId |-> u,
                       participantCount |-> 1]
       IN  mock' = [MockCall(mock, "createRoom", u, roomId) EXCEPT
                       !.rooms = MapSet(MapSet(@, roomId, newRoom), code, newRoom),
                       !.nextUuid = @ + 1,
                       !.joined = @ \cup {<<u, roomId>>}]
    /\ UNCHANGED <<serverVars, gen, chan>>

\* MockServer.joinRoom(code, user)
MockJoinRoom(code, u) ==
    /\ IF ~MapHas(mock.rooms, toUpperCase(code))
       THEN mock' = [MockCall(mock, "joinRoom", u, <<>>) EXCEPT !.last.threw = TRUE]
       ELSE LET room == MapGet(mock.rooms, toUpperCase(code))
            IN  mock' = [broadcastToRoom(MockCall(mock, "joinRoom", u, room.id),
                                         room.id, "USER_JOINED")
                            EXCEPT !.joined = @ \cup {<<u, room.id>>}]
    /\ UNCHANGED <<serverVars, gen, chan>>

\* MockServer.sendMessage(roomId, message), message.senderId = u
MockSendMessage(roomId, u) ==
    /\ mock' = broadcastToRoom(MockCall(mock, "sendMessage", u, roomId),
                               roomId, "NEW_MESSAGE")
    /\ UNCHANGED <<serverVars, gen, chan>>

\* MockServer.leaveRoom(roomId, userId)
MockLeaveRoom(roomId, u) ==
    /\ mock' = MockHandleUserLeavingRoom(MockCall(mock, "leaveRoom", u, roomId),
                                         roomId, u)
    /\ UNCHANGED <<serverVars, gen, chan>>

\* The room ids handed out so far
MockIssued == { MockUuid(n) : n \in 1..(mock.nextUuid - 1) }

MockNext ==
    \/ \E u \in MockUsers : MockConnect(u)
    \/ \E u \in MockUsers : MockDisconnect(u)
    \/ \E u \in MockUsers, rand \in RandPool : MockCreateRoom(u, rand)
    \/ \E u \in MockUsers, code \in TypedCodes : MockJoinRoom(code, u)
    \/ \E u \in MockUsers, roomId \in MockIssued : MockSendMessage(roomId, u)
    \/ \E u \in MockUsers, roomId \in MockIssued : MockLeaveRoom(roomId, u)

MockSpec == Init /\ [][MockNext]_vars

\* ------------------------------------------- send_message over the wire
\* The server with room 1 open: socket 1 logged in as alice and created it at
\* time 0, socket 2 logged in as bob and joined it; no event is being handled.
OrderInit ==
    /\ conn = [s \in Sockets |-> "connected"]
    /\ users = [s \in Sockets |-> NamePool[s]]
    /\ \E rand \in RandPool :
          /\ rooms = With(<<>>, 1, [code |-> generateRoomCode(rand), creatorId |-> 1,
                                    participantCount |-> 2, lastActive |-> 0])
          /\ roomCodes = With(<<>>, generateRoomCode(rand), 1)
    /\ members = [r \in RoomIds |-> IF r = 1 THEN <<1, 2>> ELSE <<>>]
    /\ nextId = 2
    /\ now = 0
    /\ out = <<>>
    /\ lastEv = Ev("none", 0, 0)
    /\ notices = [r \in RoomIds |-> [s \in Sockets |-> 0]]
    /\ deadCodes = {}
    /\ destroyed = <<>>
    /\ handlers = <<>>
    /\ touchedAt = [r \in RoomIds |-> IF r = 1 THEN 0 ELSE NoTouch]
    /\ gen = NoGen
    /\ mock = MockInit
    /\ chan = NoChan

\* A dispatch that hands the handler the newest waiting packet first.
Dequeue_newestFirst(q) == [packet |-> q[Len(q)], rest |-> SubSeq(q, 1, Len(q) - 1)]

\* The packets of one connection reach socket.on's handler in arrival order.
Dequeue(q) == [packet |-> Head(q), rest |-> Tail(q)]

\* What the handler emitted, written to the connection of each recipient, with
\* the socket that sent the inbound event and its number among that socket's
\* emissions.
RECURSIVE Deliver(_, _, _, _)
Deliver(down, o, from, seq) ==
    IF o = <<>> THEN down
    ELSE Deliver([down EXCEPT ![Head(o).to] =
                     Append(@, [ev |-> Head(o).ev, roomId |-> Head(o).roomId,
                                arg |-> Head(o).arg, from |-> from, seq |-> seq])],
                 Tail(o), from, seq)

\* The client: socket.emit('send_message', payload)
ClientEmit(s, payload) ==
    /\ conn[s] = "connected"
    /\ payload.senderId = s
    /\ chan.sent[s] < MaxSent
    /\ chan' = [chan EXCEPT !.sent[s] = @ + 1,
                            !.up[s] = Append(@, [payload |-> payload, seq |-> chan.sent[s] + 1])]
    /\ UNCHANGED <<serverVars, gen, mock>>

\* The server: socket.on('send_message', ...) runs for the next packet of s
ServerReceive(s) ==
    /\ Quiet
    /\ conn[s] = "connected"
    /\ chan.up[s] # <<>>
    /\ LET next == Dequeue(chan.up[s])
           st == SendMessageHandler(St, s, next.packet.payload)
       IN  /\ rooms' = st.rooms
           /\ touchedAt' = st.touched
           /\ chan' = [chan EXCEPT !.up[s] = next.rest,
                                   !.down = Deliver(@, st.out, s, next.packet.seq)]
    /\ UNCHANGED <<conn, users, roomCodes, members, nextId, now, out, lastEv,
                   notices, deadCodes, destroyed, handlers, gen, mock>>

\* The client: the 'new_message' listener runs for the next packet
ClientReceive(q) ==
    /\ chan.down[q] # <<>>
    /\ chan' = [chan EXCEPT !.down[q] = Tail(@), !.got[q] = Append(@, Head(chan.down[q]))]
    /\ UNCHANGED <<serverVars, gen, mock>>

OrderNext ==
    \/ \E s \in Sockets, payload \in Payloads : ClientEmit(s, payload)
    \/ \E s \in Sockets : ServerReceive(s)
    \/ \E q \in Sockets : ClientReceive(q)

OrderSpec == OrderInit /\ [][OrderNext]_vars

\* ------------------------------------------------------------ properties
\* vars, with the kind of the event in front: a step that is not a stuttering
\* step differs there or in the clock.
watch == <<lastEv.type, now, vars>>

IsActive(r) == r \in DOMAIN rooms

\* findByCode: what roomCodes.get(code) then rooms.get(roomId) yield, 0 if nothing
FindByCode(code) ==
    IF code \in DOMAIN roomCodes /\ roomCodes[code] \in DOMAIN rooms
    THEN roomCodes[code] ELSE 0

IsIdle(r) == now - rooms[r].lastActive > INACTIVITY_TIMEOUT

\* socket `to` was sent `ev` about room r in the emissions o
Got(o, to, ev, r) ==
    \E i \in 1..Len(o) : o[i].ev = ev /\ o[i].to = to /\ o[i].roomId = r

\* socket `to` was sent room_destroyed{r, reason} in the emissions o
GotDestroyed(o, to, r, reason) ==
    \E i \in 1..Len(o) :
        o[i].ev = "room_destroyed" /\ o[i].to = to /\ o[i].roomId = r
        /\ o[i].arg = reason

\* C1: any two distinct ACTIVE rooms have different join codes.
C1_UniqueCodes ==
    \A r1 \in DOMAIN rooms, r2 \in DOMAIN rooms :
        r1 # r2 => rooms[r1].code # rooms[r2].code

\* C2: a join_room with the code of a destroyed room, no room having been
\* created with that code since, is refused ('Room not found' to a registered
\* caller) and changes nothing; the code resolves to no room.
C2_DestroyedCodeNotFound ==
    [][ (lastEv'.type = "join_room" /\ toUpperCase(lastEv'.arg) \in deadCodes) =>
          /\ FindByCode(toUpperCase(lastEv'.arg)) = 0
          /\ Len(out') = 1
          /\ out'[1].ev = "ack"
          /\ out'[1].to = lastEv'.socket
          /\ out'[1].arg = IF users[lastEv'.socket] = NoUser
                           THEN "Not authenticated" ELSE "Room not found"
          /\ UNCHANGED <<conn, users, rooms, roomCodes, members, nextId,
                         notices, deadCodes>> ]_watch

C2_Witness ==
    /\ lastEv.type = "join_room"
    /\ toUpperCase(lastEv.arg) \in deadCodes
    /\ users[lastEv.socket] # NoUser
    /\ rooms # <<>>
    /\ Len(out) = 1
    /\ out[1].ev = "ack"
    /\ out[1].arg = "Room not found"

\* C3: however often the destruction of a room is triggered, each socket
\* receives at most one room_destroyed notice for it.
C3_OneNoticePerMember ==
    \A r \in RoomIds, s \in Sockets : notices[r][s] <= 1

\* C4: when the creator of an ACTIVE room disconnects, or sends leave_room for
\* it, the room is gone from the room map and its code no longer resolves to
\* it once the event is handled.
C4_CreatorExitDestroys ==
    [][ \A r \in DOMAIN rooms :
          LET c == rooms[r].creatorId
          IN  (\/ conn[c] = "connected" /\ conn'[c] = "closed"
               \/ lastEv'.type = "leave_room" /\ lastEv'.socket = c
                  /\ lastEv'.arg = r)
              => /\ r \notin DOMAIN rooms'
                 /\ \A k \in DOMAIN roomCodes' : roomCodes'[k] # r ]_watch

C4_Witness ==
    /\ lastEv.type = "leave_room"
    /\ lastEv.arg \notin DOMAIN rooms
    /\ \E s \in Sockets : s # lastEv.socket
          /\ GotDestroyed(out, s, lastEv.arg, "Creator left the room")

\* C5: the creatorId of a room is the socket whose create_room made it, and
\* no later event changes it while the room is ACTIVE.
C5_CreatorNeverChanges ==
    [][ /\ \A r \in (DOMAIN rooms) \cap (DOMAIN rooms') :
              rooms'[r].creatorId = rooms[r].creatorId
        /\ \A r \in (DOMAIN rooms') \ (DOMAIN rooms) :
              /\ lastEv'.type = "create_room"
              /\ rooms'[r].creatorId = lastEv'.socket ]_watch

C5_Witness ==
    /\ lastEv.type = "join_room"
    /\ \E r \in DOMAIN rooms :
          /\ InSeq(members[r], lastEv.socket)
          /\ rooms[r].creatorId # lastEv.socket
          /\ Got(out, rooms[r].creatorId, "user_joined", r)

\* C6: once a join_room, leave_room or disconnect is handled, every ACTIVE
\* room's participantCount is the number of its tracked members.
C6_CountEqualsMembers ==
    lastEv.type \in {"join_room", "leave_room", "disconnect"} =>
        \A r \in DOMAIN rooms : rooms[r].participantCount = Len(members[r])

\* C7: a sweep tick destroys every ACTIVE room idle beyond the timeout, and
\* each of its members is sent room_destroyed with the expiry reason.
C7_SweepDestroysIdle ==
    [][ lastEv'.type = "sweep" =>
          \A r \in DOMAIN rooms :
              IsIdle(r) =>
                  /\ r \notin DOMAIN rooms'
                  /\ \A s \in Range(members[r]) :
                        GotDestroyed(out', s, r, "Room expired due to inactivity")
      ]_watch

\* C8: a sweep tick leaves every ACTIVE room that is not idle beyond the
\* timeout ACTIVE, with the same members.
C8_SweepSparesActive ==
    [][ lastEv'.type = "sweep" =>
          \A r \in DOMAIN rooms :
              ~IsIdle(r) => r \in DOMAIN rooms' /\ members'[r] = members[r]
      ]_watch

\* C9: a send_message naming room R from a socket that is not a member of R
\* is not relayed and leaves R's lastActive alone.
C9_NonMemberNotRelayed ==
    [][ (/\ lastEv'.type = "send_message"
         /\ ~InSeq(members[lastEv'.arg.roomId], lastEv'.socket)) =>
          /\ \A i \in 1..Len(out') : out'[i].ev # "new_message"
          /\ lastEv'.arg.roomId \in DOMAIN rooms =>
                /\ lastEv'.arg.roomId \in DOMAIN rooms'
                /\ rooms'[lastEv'.arg.roomId].lastActive
                       = rooms[lastEv'.arg.roomId].lastActive ]_watch

\* C10: the sender identifier of every delivered new_message is the socket
\* that sent the send_message, whatever senderId the payload carried.
C10_SenderIsSocket ==
    \A i \in 1..Len(out) :
        out[i].ev = "new_message" => out[i].arg.senderId = lastEv.socket

\* the number of times socket `to` was sent `ev` about room r with argument
\* arg in the emissions o
RECURSIVE Count(_, _, _, _, _)
Count(o, to, ev, r, arg) ==
    IF o = <<>> THEN 0
    ELSE Count(Tail(o), to, ev, r, arg)
         + (IF Head(o).ev = ev /\ Head(o).to = to /\ Head(o).roomId = r
               /\ Head(o).arg = arg
            THEN 1 ELSE 0)

\* C11: a send_message from a member of an ACTIVE room R puts exactly one
\* new_message, carrying the payload as it was sent, on the way to every
\* member of R, the sender included, and nothing on the way to anyone else.
C11_RelayToMembers ==
    [][ (/\ lastEv'.type = "send_message"
         /\ lastEv'.arg.roomId \in DOMAIN rooms
         /\ InSeq(members[lastEv'.arg.roomId], lastEv'.socket)) =>
          LET r == lastEv'.arg.roomId
          IN  /\ \A s \in Sockets :
                    Count(out', s, "new_message", r, lastEv'.arg)
                        = IF InSeq(members[r], s) THEN 1 ELSE 0
              /\ Len(out') = Len(members[r]) ]_watch

C11_Witness ==
    /\ lastEv.type = "send_message"
    /\ lastEv.arg.roomId \in DOMAIN rooms
    /\ Len(members[lastEv.arg.roomId]) = 2
    /\ InSeq(members[lastEv.arg.roomId], lastEv.socket)
    /\ rooms[lastEv.arg.roomId].creatorId # lastEv.socket
    /\ Len(out) = 2
    /\ \E q \in DOMAIN rooms : ~InSeq(members[q], lastEv.socket)

\* C12: a login on a socket that already has a users entry is refused: the
\* acknowledgement is not a success and the entry keeps its username.
C12_SecondLoginRefused ==
    [][ (lastEv'.type = "login" /\ users[lastEv'.socket] # NoUser) =>
          /\ \A i \in 1..Len(out') :
                (out'[i].ev = "ack" /\ out'[i].to = lastEv'.socket)
                    => out'[i].arg # "success"
          /\ users'[lastEv'.socket] = users[lastEv'.socket] ]_watch

\* C13: a create_room or join_room from a socket with no users entry is
\* answered 'Not authenticated' to that socket, nothing else is emitted, and
\* no room, code, membership or session changes.
C13_UnauthenticatedRefused ==
    [][ (/\ lastEv'.type \in {"create_room", "join_room"}
         /\ users[lastEv'.socket] = NoUser) =>
          /\ out' = <<Msg(lastEv'.socket, "ack", 0, "Not authenticated")>>
          /\ UNCHANGED <<conn, users, rooms, roomCodes, members, nextId,
                         notices, deadCodes>> ]_watch

C13_Witness ==
    /\ lastEv.type = "join_room"
    /\ users[lastEv.socket] = NoUser
    /\ FindByCode(toUpperCase(lastEv.arg)) # 0
    /\ members[FindByCode(toUpperCase(lastEv.arg))] # <<>>
    /\ lastEv.arg # toUpperCase(lastEv.arg)
    /\ out = <<Msg(lastEv.socket, "ack", 0, "Not authenticated")>>

\* C14: a create_room from a socket s with a users entry makes a room under
\* an id no room had, with creatorId s, participantCount 1, s as its only
\* member and the drawn code resolving to it; s is sent the room record and
\* nothing else is emitted.
C14_CreateRoomResult ==
    [][ (lastEv'.type = "create_room" /\ users[lastEv'.socket] # NoUser) =>
          LET s == lastEv'.socket
              r == nextId
          IN  /\ r \notin DOMAIN rooms
              /\ members[r] = <<>>
              /\ \A k \in DOMAIN roomCodes : roomCodes[k] # r
              /\ DOMAIN rooms' = (DOMAIN rooms) \cup {r}
              /\ rooms'[r].creatorId = s
              /\ rooms'[r].participantCount = 1
              /\ rooms'[r].code = lastEv'.arg
              /\ members'[r] = <<s>>
              /\ lastEv'.arg \in DOMAIN roomCodes'
              /\ roomCodes'[lastEv'.arg] = r
              /\ out' = <<Msg(s, "ack", r, "success")>> ]_watch

C14_Witness ==
    /\ lastEv.type = "create_room"
    /\ out = <<Msg(lastEv.socket, "ack", 2, "success")>>
    /\ 1 \in DOMAIN rooms
    /\ rooms[1].creatorId # lastEv.socket
    /\ InSeq(members[1], lastEv.socket)
    /\ members[2] = <<lastEv.socket>>

\* C15: a join_room from a socket s with a users entry, with a code that
\* resolves to room R, makes s a member of R, sends user_joined with s's
\* username and R's id once to every other member of R and not to s, and
\* acknowledges the room record to s.
C15_JoinRoomResult ==
    [][ (/\ lastEv'.type = "join_room"
         /\ users[lastEv'.socket] # NoUser
         /\ FindByCode(toUpperCase(lastEv'.arg)) # 0) =>
          LET s == lastEv'.socket
              r == FindByCode(toUpperCase(lastEv'.arg))
          IN  /\ Range(members'[r]) = Range(members[r]) \cup {s}
              /\ \A q \in Sockets :
                    Count(out', q, "user_joined", r, users[s])
                        = IF q # s /\ InSeq(members[r], q) THEN 1 ELSE 0
              /\ Count(out', s, "ack", r, "success") = 1
              /\ Len(out') = Len(Remove(members[r], s)) + 1 ]_watch

C15_Witness ==
    /\ lastEv.type = "join_room"
    /\ lastEv.arg # toUpperCase(lastEv.arg)
    /\ \E r \in DOMAIN rooms :
          /\ members[r] = <<rooms[r].creatorId, lastEv.socket>>
          /\ out = <<Msg(rooms[r].creatorId, "user_joined", r, users[lastEv.socket]),
                     Msg(lastEv.socket, "ack", r, "success")>>

\* C16: a join_room from a socket with a users entry, with a code that
\* resolves to no room, is answered 'Room not found' to the caller; nothing
\* else is emitted and no room, code or membership changes.
C16_UnknownCodeRefused ==
    [][ (/\ lastEv'.type = "join_room"
         /\ users[lastEv'.socket] # NoUser
         /\ FindByCode(toUpperCase(lastEv'.arg)) = 0) =>
          /\ out' = <<Msg(lastEv'.socket, "ack", 0, "Room not found")>>
          /\ UNCHANGED <<conn, users, rooms, roomCodes, members, notices>>
      ]_watch

C16_Witness ==
    /\ lastEv.type = "join_room"
    /\ toUpperCase(lastEv.arg) \notin deadCodes
    /\ out = <<Msg(lastEv.socket, "ack", 0, "Room not found")>>
    /\ \E r \in DOMAIN rooms : Len(members[r]) = 2

\* C17: every destroyRoom call that finds its room sends room_destroyed, with
\* the room's id and the call's reason, to every socket that is a member of
\* the room at the call; once the event is handled the room has no members.
C17_DestroyNotifiesMembers ==
    \A i \in 1..Len(destroyed) :
        /\ \A s \in Range(destroyed[i].members) :
              GotDestroyed(out, s, destroyed[i].roomId, destroyed[i].reason)
        /\ members[destroyed[i].roomId] = <<>>

C17_Witness ==
    /\ lastEv.type = "sweep"
    /\ \E i \in 1..Len(destroyed) :
          /\ Len(destroyed[i].members) = 2
          /\ destroyed[i].reason = "Room expired due to inactivity"
          /\ \A s \in Sockets :
                GotDestroyed(out, s, destroyed[i].roomId, destroyed[i].reason)
          /\ members[destroyed[i].roomId] = <<>>

\* C18: when socket s disconnects, user_left about s goes only to rooms s was
\* a member of without being their creator; afterwards s has no users entry
\* and is in no room's membership.
C18_UserLeftOnlyToJoinedRooms ==
    [][ lastEv'.type = "disconnect" =>
          LET s == lastEv'.socket
          IN  /\ \A i \in 1..Len(out') :
                    (out'[i].ev = "user_left" /\ out'[i].arg = s) =>
                        /\ InSeq(members[out'[i].roomId], s)
                        /\ rooms[out'[i].roomId].creatorId # s
              /\ users'[s] = NoUser
              /\ \A r \in RoomIds : ~InSeq(members'[r], s) ]_watch

\* C19: when the disconnect of socket s is handled, every room s created is
\* gone from the room map and s is a member of no room that remains.
C19_DisconnectResolvesAll ==
    [][ lastEv'.type = "disconnect" =>
          \A r \in DOMAIN rooms :
              /\ rooms[r].creatorId = lastEv'.socket => r \notin DOMAIN rooms'
              /\ r \in DOMAIN rooms' => ~InSeq(members'[r], lastEv'.socket)
      ]_watch

C19_Witness ==
    /\ lastEv.type = "disconnect"
    /\ \E i \in 1..Len(destroyed) :
          /\ destroyed[i].creatorId = lastEv.socket
          /\ destroyed[i].roomId \notin DOMAIN rooms
    /\ \E r \in lastEv.arg :
          /\ r \in DOMAIN rooms
          /\ rooms[r].creatorId # lastEv.socket
          /\ ~InSeq(members[r], lastEv.socket)
          /\ Got(out, rooms[r].creatorId, "user_left", r)

\* C20: a leave_room for room R from a socket that is neither a member of R
\* nor its creator changes nothing of R (members, participantCount,
\* lastActive) and sends no user_left.
C20_NonMemberLeaveNoOp ==
    [][ (/\ lastEv'.type = "leave_room"
         /\ lastEv'.arg \in DOMAIN rooms
         /\ ~InSeq(members[lastEv'.arg], lastEv'.socket)
         /\ rooms[lastEv'.arg].creatorId # lastEv'.socket) =>
          /\ lastEv'.arg \in DOMAIN rooms'
          /\ rooms'[lastEv'.arg] = rooms[lastEv'.arg]
          /\ members'[lastEv'.arg] = members[lastEv'.arg]
          /\ \A i \in 1..Len(out') : out'[i].ev # "user_left" ]_watch

\* C21: a leave_room for room R from a member that is not R's creator takes
\* the socket out of R's members, keeps R in the room map under the same
\* creator, and sends user_left with the socket's id and R's id once to every
\* member that remains.
C21_MemberLeaves ==
    [][ (/\ lastEv'.type = "leave_room"
         /\ lastEv'.arg \in DOMAIN rooms
         /\ InSeq(members[lastEv'.arg], lastEv'.socket)
         /\ rooms[lastEv'.arg].creatorId # lastEv'.socket) =>
          LET s == lastEv'.socket
              r == lastEv'.arg
          IN  /\ members'[r] = Remove(members[r], s)
              /\ r \in DOMAIN rooms'
              /\ rooms'[r].creatorId = rooms[r].creatorId
              /\ \A q \in Sockets :
                    Count(out', q, "user_left", r, s)
                        = IF InSeq(members'[r], q) THEN 1 ELSE 0 ]_watch

C21_Witness ==
    /\ lastEv.type = "leave_room"
    /\ lastEv.arg \in lastEv.rooms
    /\ lastEv.arg \in DOMAIN rooms
    /\ members[lastEv.arg] = <<rooms[lastEv.arg].creatorId>>
    /\ out = <<Msg(rooms[lastEv.arg].creatorId, "user_left", lastEv.arg,
                   lastEv.socket)>>

\* C22: every room of the room map is found under its own code: roomCodes
\* maps room.code to the room's id.
C22_CodeResolvesToRoom ==
    \A r \in DOMAIN rooms : FindByCode(rooms[r].code) = r

\* C23: between events, the creator of every room of the room map is a member
\* of that room.
C23_CreatorIsMember ==
    \A r \in DOMAIN rooms : InSeq(members[r], rooms[r].creatorId)

C23_Witness ==
    /\ lastEv.type = "disconnect"
    /\ \E r \in lastEv.rooms :
          /\ r \in DOMAIN rooms
          /\ members[r] = <<rooms[r].creatorId>>
    /\ \E i \in 1..Len(destroyed) : destroyed[i].creatorId = lastEv.socket

\* C24: no event's handler starts while another transition is under way: a
\* 'disconnect' handler never starts while a destroyRoom has begun and not yet
\* returned.
C24_HandlersRunToCompletion ==
    \A i \in 1..Len(handlers) : handlers[i].during = {}

\* C25: a send_message or leave_room that names a room not in the room map,
\* or that comes from a socket that is not a member of the room, is answered
\* with a failure to the calling socket, and nothing is sent to another socket.
C25_FailureReported ==
    [][ /\ (/\ lastEv'.type = "send_message"
            /\ \/ lastEv'.arg.roomId \notin DOMAIN rooms
               \/ ~InSeq(members[lastEv'.arg.roomId], lastEv'.socket)) =>
              /\ \E i \in 1..Len(out') :
                    out'[i].ev = "ack" /\ out'[i].to = lastEv'.socket
              /\ \A i \in 1..Len(out') : out'[i].to = lastEv'.socket
        /\ (/\ lastEv'.type = "leave_room"
            /\ \/ lastEv'.arg \notin DOMAIN rooms
               \/ ~InSeq(members[lastEv'.arg], lastEv'.socket)) =>
              /\ \E i \in 1..Len(out') :
                    out'[i].ev = "ack" /\ out'[i].to = lastEv'.socket
              /\ \A i \in 1..Len(out') : out'[i].to = lastEv'.socket ]_watch

\* C26: a join_room from a socket that is already a member of the room the
\* code resolves to leaves the room's participantCount as it was.
C26_RejoinKeepsCount ==
    [][ (/\ lastEv'.type = "join_room"
         /\ users[lastEv'.socket] # NoUser
         /\ FindByCode(toUpperCase(lastEv'.arg)) # 0
         /\ InSeq(members[FindByCode(toUpperCase(lastEv'.arg))], lastEv'.socket)) =>
          LET r == FindByCode(toUpperCase(lastEv'.arg))
          IN  /\ r \in DOMAIN rooms'
              /\ rooms'[r].participantCount = rooms[r].participantCount ]_watch

\* C27: a join_room that succeeds, a send_message that is relayed and a
\* leave_room of a socket that is not the creator set the room's lastActive
\* to the current time; and a sweep tick no later than INACTIVITY_TIMEOUT after
\* such a write leaves the room in the room map.
C27_TouchExtendsLife ==
    [][ /\ \A r \in DOMAIN rooms :
              (\/ /\ lastEv'.type = "join_room"
                  /\ users[lastEv'.socket] # NoUser
                  /\ FindByCode(toUpperCase(lastEv'.arg)) = r
               \/ /\ lastEv'.type = "send_message"
                  /\ lastEv'.arg.roomId = r
               \/ /\ lastEv'.type = "leave_room"
                  /\ lastEv'.arg = r
                  /\ rooms[r].creatorId # lastEv'.socket) =>
                  /\ r \in DOMAIN rooms'
                  /\ rooms'[r].lastActive = now
                  /\ touchedAt'[r] = now
        /\ lastEv'.type = "sweep" =>
              \A r \in DOMAIN rooms :
                  (touchedAt[r] # NoTouch /\ now - touchedAt[r] <= INACTIVITY_TIMEOUT)
                      => r \in DOMAIN rooms' ]_watch

\* C28: the destruction of a room leaves the rest alone: a member of the room
\* that is not its creator (and is not the socket whose disconnect is being
\* handled) keeps its users entry, and when the trigger is a leave_room every
\* other room stays in the room map with the members it had.
C28_DestroyLeavesRestAlone ==
    [][ /\ \A r \in (DOMAIN rooms) \ (DOMAIN rooms') :
              \A s \in Range(members[r]) :
                  (/\ s # rooms[r].creatorId
                   /\ lastEv'.type = "disconnect" => s # lastEv'.socket)
                      => users'[s] = users[s]
        /\ (lastEv'.type = "leave_room" /\ lastEv'.arg \notin DOMAIN rooms') =>
              \A q \in (DOMAIN rooms) \ {lastEv'.arg} :
                  q \in DOMAIN rooms' /\ members'[q] = members[q] ]_watch

\* C29: a leave_room from the creator of room R destroys R only: the creator
\* keeps its users entry and every other room it created stays in the room
\* map.
C29_CreatorLeaveDestroysOnlyR ==
    [][ (/\ lastEv'.type = "leave_room"
         /\ lastEv'.arg \in DOMAIN rooms
         /\ rooms[lastEv'.arg].creatorId = lastEv'.socket) =>
          /\ users'[lastEv'.socket] = users[lastEv'.socket]
          /\ \A q \in (DOMAIN rooms) \ {lastEv'.arg} :
                rooms[q].creatorId = lastEv'.socket => q \in DOMAIN rooms'
      ]_watch

\* C30: the disconnect of a socket that is neither the creator nor a member
\* of room R leaves R's lastActive as it was.
C30_UnrelatedDisconnectNoTouch ==
    [][ lastEv'.type = "disconnect" =>
          \A r \in (DOMAIN rooms) \cap (DOMAIN rooms') :
              (/\ rooms[r].creatorId # lastEv'.socket
               /\ ~InSeq(members[r], lastEv'.socket))
                  => rooms'[r].lastActive = rooms[r].lastActive ]_watch

\* C31: a sweep tick at which no room is idle beyond the timeout emits nothing
\* and changes no room, code, membership or session; and no sweep tick calls
\* destroyRoom for, or sends room_destroyed about, a room that was not in the
\* room map when the tick began.
C31_SweepNoOp ==
    [][ lastEv'.type = "sweep" =>
          /\ (\A r \in DOMAIN rooms : ~IsIdle(r)) =>
                /\ out' = <<>>
                /\ destroyed' = <<>>
                /\ UNCHANGED <<conn, users, rooms, roomCodes, members, notices>>
          /\ \A i \in 1..Len(destroyed') : destroyed'[i].roomId \in DOMAIN rooms
          /\ \A i \in 1..Len(out') :
                out'[i].ev = "room_destroyed" => out'[i].roomId \in DOMAIN rooms
      ]_watch

C31_Witness ==
    /\ lastEv.type = "sweep"
    /\ now > INACTIVITY_TIMEOUT
    /\ out = <<>>
    /\ deadCodes # {}
    /\ \E s \in Sockets : conn[s] = "closed"
    /\ \E r \in DOMAIN rooms : members[r] # <<>>

\* C32: a room id that has been handed out and is no longer in the room map
\* never returns to it, a room for which destroyRoom ran is gone when the
\* event ends, and a send_message or leave_room naming such an id emits
\* nothing and changes nothing.
C32_DestroyedIsTerminal ==
    [][ /\ \A r \in RoomIds :
              (r < nextId /\ r \notin DOMAIN rooms) => r \notin DOMAIN rooms'
        /\ \A i \in 1..Len(destroyed') :
              destroyed'[i].roomId \notin DOMAIN rooms'
        /\ \A r \in RoomIds :
              (/\ r < nextId
               /\ r \notin DOMAIN rooms
               /\ \/ lastEv'.type = "send_message" /\ lastEv'.arg.roomId = r
                  \/ lastEv'.type = "leave_room" /\ lastEv'.arg = r) =>
                  /\ out' = <<>>
                  /\ UNCHANGED <<conn, users, rooms, roomCodes, members, nextId,
                                 notices, deadCodes, touchedAt>> ]_watch

C32_Witness ==
    /\ lastEv.type = "send_message"
    /\ lastEv.arg.roomId < nextId
    /\ lastEv.arg.roomId \notin DOMAIN rooms
    /\ lastEv.rooms # {}
    /\ out = <<>>

\* C33: between events, the creator of every room of the room map has a users
\* entry.
C33_CreatorIsRegistered ==
    \A r \in DOMAIN rooms : users[rooms[r].creatorId] # NoUser

C33_Witness ==
    /\ lastEv.type = "disconnect"
    /\ users[lastEv.socket] = NoUser
    /\ \E i \in 1..Len(destroyed) :
          /\ destroyed[i].creatorId = lastEv.socket
          /\ destroyed[i].reason = "Creator disconnected"
    /\ \E r \in DOMAIN rooms :
          /\ conn[rooms[r].creatorId] = "connected"
          /\ users[rooms[r].creatorId] # NoUser

\* The spellings of a code tried for C35: as issued, all lower case, and lower
\* case at the odd positions only.
CaseVariants(code) ==
    { code, toLowerCase(code),
      [i \in 1..Len(code) |-> IF i % 2 = 1 THEN LowerChar(code[i]) ELSE code[i]] }

\* C35: for every room of the room map, a join_room with any spelling of its
\* code that differs from it in case only has the same outcome, for every
\* socket, as a join_room with the code itself.
C35_CaseInsensitiveLookup ==
    \A r \in DOMAIN rooms : \A v \in CaseVariants(rooms[r].code) :
        /\ toLowerCase(v) = toLowerCase(rooms[r].code)
        /\ \A s \in Sockets :
              JoinRoomHandler(St, s, v) = JoinRoomHandler(St, s, rooms[r].code)

C35_Witness ==
    /\ lastEv.type = "join_room"
    /\ lastEv.arg # toUpperCase(lastEv.arg)
    /\ \E r \in DOMAIN rooms :
          /\ rooms[r].code = toUpperCase(lastEv.arg)
          /\ lastEv.arg \in CaseVariants(rooms[r].code)
          /\ r \notin lastEv.rooms
          /\ InSeq(members[r], lastEv.socket)
          /\ Got(out, lastEv.socket, "ack", r)

\* C38: every code generateRoomCode returns has length 6 and each of its
\* characters is one of the 32 distinct characters of the alphabet
\* 'ABCDEFGHJKLMNPQRSTUVWXYZ23456789', none of which is I, O, 0 or 1.
C38_CodeShape ==
    gen.code # <<>> =>
        /\ Len(gen.code) = 6
        /\ \A i \in 1..Len(gen.code) : gen.code[i] \in Range(chars)
        /\ Len(chars) = 32
        /\ Cardinality(Range(chars)) = 32
        /\ Range(chars) \cap {"I", "O", "0", "1"} = {}

C38_Witness ==
    /\ gen.code # <<>>
    /\ gen.random[1] = RandomDenom - 1
    /\ gen.code[1] = "9"
    /\ gen.random[2] = 0
    /\ gen.code[2] = "A"
    /\ gen.code[3] = "S"

\* How many of the deliveries o are events of the given type for the room to
\* the connection.
RECURSIVE MockCount(_, _, _, _)
MockCount(o, to, type, roomId) ==
    IF o = <<>> THEN 0
    ELSE MockCount(Tail(o), to, type, roomId)
         + (IF Head(o).to = to /\ Head(o).type = type /\ Head(o).roomId = roomId
            THEN 1 ELSE 0)

\* C36: in the mock backend, after a creator's connection is closed, each
\* room they had created has produced exactly one ROOM_DESTROYED event for
\* every connection, and neither its id key nor its code key is left in the
\* room map.
C36_MockDestroyedOnce ==
    mock.last.op = "disconnect" =>
        \A room \in mock.last.owned :
            /\ \A c \in Range(mock.activeConnections) :
                   MockCount(mock.last.out, c, "ROOM_DESTROYED", room.id) = 1
            /\ ~MapHas(mock.rooms, room.id)
            /\ ~MapHas(mock.rooms, room.code)

\* C37: in the mock backend, an event for room R (NEW_MESSAGE, USER_JOINED,
\* USER_LEFT, ROOM_DESTROYED) is delivered only to connections that created
\* or joined R.
C37_MockRoomScoped ==
    \A i \in 1..Len(mock.last.out) :
        <<mock.last.out[i].to, mock.last.out[i].roomId>> \in mock.joined

\* The server state OrderInit starts from, as a state of the server.
OrderStart ==
    /\ Quiet
    /\ conn = [s \in Sockets |-> "connected"]
    /\ users = [s \in Sockets |-> NamePool[s]]
    /\ DOMAIN rooms = {1}
    /\ rooms[1].creatorId = 1
    /\ rooms[1].participantCount = 2
    /\ rooms[1].lastActive = 0
    /\ roomCodes = With(<<>>, rooms[1].code, 1)
    /\ members = [r \in RoomIds |-> IF r = 1 THEN <<1, 2>> ELSE <<>>]
    /\ nextId = 2
    /\ now = 0
    /\ out = <<>>
    /\ notices = [r \in RoomIds |-> [s \in Sockets |-> 0]]
    /\ deadCodes = {}
    /\ destroyed = <<>>
    /\ handlers = <<>>
    /\ touchedAt = [r \in RoomIds |-> IF r = 1 THEN 0 ELSE NoTouch]

====
